---- MODULE Spec2Model ----
(***************************************************************************)
(* A model of the provider side of Peer Compute: the deployment scheduler  *)
(* (internal/scheduler), the protocol handlers (internal/handler), the     *)
(* trust store and connection gate (internal/p2p) and the tunnel client's  *)
(* route table (internal/tunnel).                                          *)
(*                                                                         *)
(* Every goroutine that runs a scheduler call or a stream handler is a     *)
(* task.  A task's step is one critical section of the code (the part      *)
(* between a Lock and its Unlock) or one call of the container runtime;    *)
(* steps of different tasks interleave freely.                             *)
(***************************************************************************)
EXTENDS Integers, FiniteSets, Sequences, TLC

\* ---------------------------------------------------------------- bounds
NTasks == 2          \* goroutines that may run concurrently
MaxClock == 2        \* values time.Now().UnixNano() takes in one behaviour
MaxContainers == 2   \* container handles the runtime hands out at one time
maxSlots == 2        \* Config.MaxDeployments of the modelled provider
maxCPU == 2          \* Config.MaxCPU of the modelled provider
maxMemory == 2       \* Config.MaxMemory of the modelled provider
MaxStreams == 3      \* streams the peers open in one behaviour
NTunnels == 2        \* tunnel connections the gateway accepts in one behaviour
NPublic == 2         \* public HTTP requests the gateway serves in one behaviour
MaxPort == 2         \* container ports a deployment may expose
MaxMinutes == 12     \* the minutes a clock reading or a timestamp lies in
MaxNanos == 1        \* nanoseconds before or after the full minute
MaxBuffer == 1       \* frames one direction of a tunnel connection buffers

\* protocol.MaxTimestampDrift, in minutes
MaxTimestampDrift == 5

Tasks == 1..NTasks
Ids == 1..MaxClock               \* deployment ids: "dep-<clock>"
Refs == 1..(NTasks + MaxClock)   \* addresses of Deployment objects
Cids == 1..MaxContainers         \* container handles
PeerIds == {"alice", "bob"}
NoPeer == "nobody"

\* protocol.DeploymentStatus
StatusPending == "pending"
StatusPulling == "pulling"
StatusStarting == "starting"
StatusRunning == "running"
StatusStopping == "stopping"
StatusStopped == "stopped"
StatusFailed == "failed"
StatusTerminated == "terminated"

\* ----------------------------------------------------------------- state
VARIABLES
  clock,        \* the wall clock read by generateDeploymentID
  heap,         \* the Deployment objects, by address
  deployments,  \* Scheduler.deployments: id -> address (0: no entry)
  usedCPU,      \* Scheduler.usedCPU
  usedMemory,   \* Scheduler.usedMemory
  containers,   \* the runtime: the handles of the running containers
  task,         \* per goroutine: the call it runs, its position, its locals
  crashed,      \* the daemon process died of a panic
  peers,        \* TrustManager.peers
  conns,        \* peers with an established (secured) inbound connection
  gate,         \* the connection gate's latest decision
  streams,      \* the number of streams opened so far
  routes,       \* tunnel.Client.routes: deployment id -> container port
  connected,    \* tunnel.Client.connected
  client,       \* tunnel.Client: its goroutines and the requests it forwards
  trustFile,    \* trusted_peers.json: the peer ids on disk
  save,         \* the latest write of trusted_peers.json, and what it left
  wire,         \* a signed deploy request on its way to the verifier
  link,         \* the tunnel connection: its buffers, the two locks, the goroutines
  tmTunnels,    \* gateway, TunnelManager.tunnels: peer id -> tunnel (0: none)
  tmRoutes,     \* gateway, TunnelManager.routes: deployment id -> tunnel (0: none)
  tc,           \* gateway, the TunnelConn objects
  public        \* gateway, the goroutines serving public requests

vars == <<clock, heap, deployments, usedCPU, usedMemory, containers, task,
          crashed, peers, conns, gate, streams, routes, connected, client, trustFile, save, wire, link, tmTunnels, tmRoutes,
          tc, public>>

p2pVars == <<peers, conns, gate, streams>>
tunnelVars == <<routes, connected>>
gatewayVars == <<tmTunnels, tmRoutes, tc, public>>
outsideVars == <<client, trustFile, save, wire, link, gatewayVars>>

\* protocol.Deployment; ContainerID 0 is the empty string
NoObj == [ID |-> 0, RequesterID |-> NoPeer, Status |-> "none", CPULimit |-> 0,
          MemoryLimit |-> 0, ContainerID |-> 0, ExposePort |-> 0]

\* A goroutine that runs nothing.  id, obj, cpu, mem, port, peer, cid and todo
\* are the locals of the scheduler calls; declared, sig and drift are the
\* deploy request's requester_id, whether its signature verifies, and the
\* provider's clock minus its timestamp, rid is its request_id; pulling is a
\* history bit: Stop found the record in status Pulling; unstopped is another:
\* the runtime could not stop the container Stop asked it to stop.
Idle == [op |-> "idle", pc |-> "idle", id |-> 0, obj |-> 0, cpu |-> 0, mem |-> 0,
         port |-> 0, peer |-> NoPeer, cid |-> 0, todo |-> {}, res |-> "none",
         declared |-> NoPeer, sig |-> FALSE, drift |-> 0, rid |-> 0,
         pulling |-> FALSE, unstopped |-> FALSE]

\* The keys of Scheduler.deployments, len(s.deployments), and the record of a key.
MapIds == {i \in Ids : deployments[i] # 0}
Slots == Cardinality(MapIds)
Dep(i) == heap[deployments[i]]

\* The CPU and the memory the deployments with ids in S reserve.
RECURSIVE SumCPU(_)
SumCPU(S) ==
  IF S = {} THEN 0
  ELSE LET i == CHOOSE x \in S : TRUE IN Dep(i).CPULimit + SumCPU(S \ {i})

RECURSIVE SumMemory(_)
SumMemory(S) ==
  IF S = {} THEN 0
  ELSE LET i == CHOOSE x \in S : TRUE IN Dep(i).MemoryLimit + SumMemory(S \ {i})

\* Objects that neither the map nor a goroutine refers to after the step are
\* garbage: the collector takes them.
Sweep(h) ==
  [r \in Refs |->
     IF (\E i \in Ids : deployments'[i] = r) \/ (\E t \in Tasks : task'[t].obj = r)
     THEN h[r] ELSE NoObj]

\* new(protocol.Deployment): the lowest free address.
NewRef == CHOOSE r \in Refs : heap[r] = NoObj /\ \A q \in 1..(r - 1) : heap[q] # NoObj

\* --------------------------------------------------------------- runtime
\* runtime.validateConfig: the limits must be positive (the 4 MB floor is one
\* unit of memory here).
validateConfig(cpu, mem) == cpu > 0 /\ mem > 0

\* Handles no running container, no record and no goroutine holds.
FreeCids ==
  {c \in Cids : /\ c \notin containers
                /\ \A r \in Refs : heap[r].ContainerID # c
                /\ \A t \in Tasks : task[t].cid # c}

\* ------------------------------------------------------------- scheduler
\* Scheduler.CanSchedule: one read section.
CanSchedule(cpu, mem) ==
  IF Slots >= maxSlots THEN "capacity-slots"
  ELSE IF usedCPU + cpu > maxCPU THEN "capacity-cpu"
  ELSE IF usedMemory + mem > maxMemory THEN "capacity-memory"
  ELSE "ok"

\* generateDeploymentID: the clock's value; two reads between two ticks agree.
generateDeploymentID == clock

\* Scheduler.updateStatus, as the heap it leaves.
updateStatus(id, status) ==
  IF deployments[id] # 0
  THEN [heap EXCEPT ![deployments[id]].Status = status]
  ELSE heap

\* Scheduler.failDeployment: one write section.
failDeployment(id) ==
  IF deployments[id] # 0
  THEN /\ usedCPU' = usedCPU - Dep(id).CPULimit
       /\ usedMemory' = usedMemory - Dep(id).MemoryLimit
       /\ deployments' = [deployments EXCEPT ![id] = 0]
       /\ heap' = Sweep([heap EXCEPT ![deployments[id]].Status = StatusFailed])
  ELSE /\ UNCHANGED <<usedCPU, usedMemory, deployments>>
       /\ heap' = Sweep(heap)

\* A goroutine of a process that a panic has ended.
Dead == [Idle EXCEPT !.op = "dead", !.pc = "dead"]

\* What a finished call leaves in its goroutine until the caller takes it.
Done(tk, res) == [Idle EXCEPT !.op = tk.op, !.pc = "done", !.id = tk.id,
                              !.peer = tk.peer, !.res = res]

\* What Schedule's caller does with its result: handleDeploy (lines 98-104)
\* replies with an error or goes on with the record.
ScheduleReturn(tk, res) ==
  IF tk.op = "deploy" /\ res = "ok" THEN [tk EXCEPT !.pc = "reply"] ELSE Done(tk, res)

\* Schedule, lines 83-101: the admission check, the id and the record.
\* tk is the goroutine's record with the request in it.
ScheduleEnter(tk) ==
  LET err == CanSchedule(tk.cpu, tk.mem) IN
  IF err # "ok" THEN ScheduleReturn(tk, err)
  ELSE [tk EXCEPT !.pc = "install", !.id = generateDeploymentID, !.obj = NewRef]

\* The record Schedule builds for the goroutine's request.
NewDeployment(tk) ==
  [ID |-> tk.id, RequesterID |-> tk.peer, Status |-> StatusPending,
   CPULimit |-> tk.cpu, MemoryLimit |-> tk.mem, ContainerID |-> 0,
   ExposePort |-> tk.port]

\* The requests a direct caller of Schedule passes.
Requests == {[cpu |-> 1, mem |-> 1], [cpu |-> 2, mem |-> 1], [cpu |-> 1, mem |-> 2]}

\* Goroutines have no identity: a new one takes the first free slot.
Free(t) == task[t].pc = "idle" /\ \A u \in 1..(t - 1) : task[u].pc # "idle"

\* Goroutine t enters Schedule with request req.
ScheduleWith(t, req) ==
  LET tk == ScheduleEnter([Idle EXCEPT !.op = "schedule", !.cpu = req.cpu,
                           !.mem = req.mem, !.peer = "alice"])
  IN /\ task' = [task EXCEPT ![t] = tk]
     /\ UNCHANGED deployments
     /\ heap' = Sweep(IF tk.pc = "install"
                      THEN [heap EXCEPT ![tk.obj] = NewDeployment(tk)]
                      ELSE heap)

\* A goroutine calls Schedule.
ScheduleCall(t) ==
  /\ Free(t)
  /\ \E req \in Requests : ScheduleWith(t, req)
  /\ UNCHANGED <<clock, usedCPU, usedMemory, containers, crashed>>
  /\ UNCHANGED <<p2pVars, tunnelVars, outsideVars>>

\* Schedule, lines 103-108: register the deployment.
ScheduleInstall(t) ==
  LET tk == task[t] IN
  /\ tk.pc = "install"
  /\ task' = [task EXCEPT ![t].pc = "toPulling"]
  /\ deployments' = [deployments EXCEPT ![tk.id] = tk.obj]
  /\ usedCPU' = usedCPU + tk.cpu
  /\ usedMemory' = usedMemory + tk.mem
  /\ heap' = Sweep(heap)
  /\ UNCHANGED <<clock, containers, crashed, p2pVars, tunnelVars, outsideVars>>

\* Schedule, line 111.
ScheduleToPulling(t) ==
  LET tk == task[t] IN
  /\ tk.pc = "toPulling"
  /\ task' = [task EXCEPT ![t].pc = "pull"]
  /\ UNCHANGED deployments
  /\ heap' = Sweep(updateStatus(tk.id, StatusPulling))
  /\ UNCHANGED <<clock, usedCPU, usedMemory, containers, crashed>>
  /\ UNCHANGED <<p2pVars, tunnelVars, outsideVars>>

\* Schedule, lines 113-120: the pull ends; it failed, or the status moves on.
SchedulePull(t) ==
  LET tk == task[t] IN
  /\ tk.pc = "pull"
  /\ \/ /\ task' = [task EXCEPT ![t] = ScheduleReturn(tk, "pull-failed")]
        /\ failDeployment(tk.id)
     \/ /\ task' = [task EXCEPT ![t].pc = "run"]
        /\ UNCHANGED <<deployments, usedCPU, usedMemory>>
        /\ heap' = Sweep(updateStatus(tk.id, StatusStarting))
  /\ UNCHANGED <<clock, containers, crashed, p2pVars, tunnelVars, outsideVars>>

\* Schedule, lines 122-135: runtime.Run refuses the configuration or fails, or
\* it starts a container and returns its handle.
ScheduleRun(t) ==
  LET tk == task[t] IN
  /\ tk.pc = "run"
  /\ \/ /\ task' = [task EXCEPT ![t] = ScheduleReturn(tk, "run-failed")]
        /\ failDeployment(tk.id)
        /\ UNCHANGED containers
     \/ /\ validateConfig(tk.cpu, tk.mem)
        /\ \E c \in FreeCids :
             /\ \A b \in FreeCids : c <= b
             /\ containers' = containers \cup {c}
             /\ task' = [task EXCEPT ![t].pc = "store", ![t].cid = c]
        /\ UNCHANGED <<heap, deployments, usedCPU, usedMemory>>
  /\ UNCHANGED <<clock, crashed, p2pVars, tunnelVars, outsideVars>>

\* Schedule, lines 137-145: store the handle if the id is still in the map, and
\* return the record with no error either way.
ScheduleStore(t) ==
  LET tk == task[t] IN
  /\ tk.pc = "store"
  /\ task' = [task EXCEPT ![t] = ScheduleReturn([tk EXCEPT !.cid = 0], "ok")]
  /\ UNCHANGED deployments
  /\ heap' = Sweep(IF deployments[tk.id] # 0
                   THEN [heap EXCEPT ![deployments[tk.id]].ContainerID = tk.cid,
                                     ![deployments[tk.id]].Status = StatusRunning]
                   ELSE heap)
  /\ UNCHANGED <<clock, usedCPU, usedMemory, containers, crashed>>
  /\ UNCHANGED <<p2pVars, tunnelVars, outsideVars>>

\* What Stop's caller does with Stop's result: StopAll (lines 229-233) notes an
\* error and goes on with its snapshot; any other caller gets the result.
StopReturn(tk, res) ==
  IF tk.op = "stopAll"
  THEN LET r == IF res = "ok" THEN tk.res ELSE "errors" IN
       IF tk.todo = {}
       THEN [Idle EXCEPT !.op = "stopAll", !.pc = "done",
                         !.res = IF r = "errors" THEN "errors" ELSE "ok"]
       ELSE [Idle EXCEPT !.op = "stopAll", !.pc = "stopAllLoop", !.todo = tk.todo,
                         !.res = r]
  ELSE Done(tk, res)

\* A Stop that marks every record Stopping before it looks its id up.
StopMarksAll(t, tk, id) ==
  /\ task' = [task EXCEPT ![t] =
       IF deployments[id] = 0 THEN StopReturn([tk EXCEPT !.id = id], "not-found")
       ELSE [tk EXCEPT !.pc = "stopRuntime", !.id = id, !.obj = deployments[id],
                       !.pulling = (Dep(id).Status = StatusPulling)]]
  /\ UNCHANGED deployments
  /\ heap' = Sweep([r \in Refs |->
                      IF heap[r] = NoObj THEN NoObj
                      ELSE [heap[r] EXCEPT !.Status = StatusStopping]])

\* Stop, lines 150-157: look the id up and mark the record Stopping.
StopBegin(t, tk, id) ==
  IF deployments[id] = 0
  THEN /\ task' = [task EXCEPT ![t] = StopReturn([tk EXCEPT !.id = id], "not-found")]
       /\ UNCHANGED deployments
       /\ heap' = Sweep(heap)
  ELSE /\ task' = [task EXCEPT ![t] =
                    [tk EXCEPT !.pc = "stopRuntime", !.id = id, !.obj = deployments[id],
                               !.pulling = (Dep(id).Status = StatusPulling)]]
       /\ UNCHANGED deployments
       /\ heap' = Sweep([heap EXCEPT ![deployments[id]].Status = StatusStopping])

\* A goroutine calls Stop.
StopCall(t) ==
  /\ Free(t)
  /\ \E id \in Ids : StopBegin(t, [Idle EXCEPT !.op = "stop"], id)
  /\ UNCHANGED <<clock, usedCPU, usedMemory, containers, crashed>>
  /\ UNCHANGED <<p2pVars, tunnelVars, outsideVars>>

\* runtime.Stop: stop and remove the container; no error is returned.
runtimeStop(c) == containers \ {c}

\* Stop, lines 159-164: read the record's handle outside the lock and, if it is
\* set, have the runtime stop the container.
StopRuntime(t) ==
  LET tk == task[t] IN
  /\ tk.pc = "stopRuntime"
  /\ containers' = runtimeStop(heap[tk.obj].ContainerID)
  /\ task' = [task EXCEPT ![t].pc = "stopRelease"]
  /\ UNCHANGED <<clock, heap, deployments, usedCPU, usedMemory, crashed>>
  /\ UNCHANGED <<p2pVars, tunnelVars, outsideVars>>

\* Stop, lines 166-179: look the id up again, release and delete.
StopRelease(t) ==
  LET tk == task[t] IN
  /\ tk.pc = "stopRelease"
  /\ task' = [task EXCEPT ![t] = StopReturn(tk, "ok")]
  /\ IF deployments[tk.id] # 0
     THEN /\ usedCPU' = usedCPU - Dep(tk.id).CPULimit
          /\ usedMemory' = usedMemory - Dep(tk.id).MemoryLimit
          /\ deployments' = [deployments EXCEPT ![tk.id] = 0]
          /\ heap' = Sweep([heap EXCEPT ![deployments[tk.id]].Status = StatusStopped])
     ELSE /\ UNCHANGED <<usedCPU, usedMemory, deployments>>
          /\ heap' = Sweep(heap)
  /\ UNCHANGED <<clock, containers, crashed, p2pVars, tunnelVars, outsideVars>>

\* StopAll, line 226: List() takes a snapshot of the map.
StopAllCall(t) ==
  /\ Free(t)
  /\ task' = [task EXCEPT ![t] =
       IF MapIds = {} THEN [Idle EXCEPT !.op = "stopAll", !.pc = "done", !.res = "ok"]
       ELSE [Idle EXCEPT !.op = "stopAll", !.pc = "stopAllLoop", !.todo = MapIds]]
  /\ UNCHANGED <<clock, heap, deployments, usedCPU, usedMemory, containers, crashed>>
  /\ UNCHANGED <<p2pVars, tunnelVars, outsideVars>>

\* StopAll, lines 229-230: Stop the next deployment of the snapshot (a map's
\* iteration order is any order).
StopAllNext(t) ==
  LET tk == task[t] IN
  /\ tk.pc = "stopAllLoop"
  /\ \E id \in tk.todo : StopBegin(t, [tk EXCEPT !.todo = tk.todo \ {id}], id)
  /\ UNCHANGED <<clock, usedCPU, usedMemory, containers, crashed>>
  /\ UNCHANGED <<p2pVars, tunnelVars, outsideVars>>

\* The caller takes the result; the goroutine ends.
Return(t) ==
  /\ task[t].pc = "done"
  /\ task' = [task EXCEPT ![t] = Idle]
  /\ UNCHANGED deployments
  /\ heap' = Sweep(heap)
  /\ UNCHANGED <<clock, usedCPU, usedMemory, containers, crashed>>
  /\ UNCHANGED <<p2pVars, tunnelVars, outsideVars>>

\* Time passes.
Tick ==
  /\ clock < MaxClock
  /\ clock' = clock + 1
  /\ UNCHANGED <<heap, deployments, usedCPU, usedMemory, containers, task, crashed>>
  /\ UNCHANGED <<p2pVars, tunnelVars, outsideVars>>

\* ------------------------------------------------------- specification
\* tunnel.Client after Connect: the message loop and the heartbeat run, and no
\* request is being forwarded.  seen holds the ids of the request frames
\* received, forwarding those whose goroutine waits for the container, and sent
\* counts the response frames written, by request id.
ClientStarted == [reader |-> "running", heartbeat |-> "running", closed |-> FALSE,
                  forwarding |-> {}, seen |-> {}, sent |-> [x \in Ids |-> 0]]

\* The gateway's tunnel connections and public requests.
Tunnels == 1..NTunnels
Publics == 1..NPublic

\* A TunnelConn the gateway has not accepted yet.  pending maps a request id to
\* the public request whose channel is in the slot (0: no slot).
NoTunnel == [state |-> "new", PeerID |-> NoPeer, Routes |-> {},
             pending |-> [x \in Ids |-> 0]]

\* A public request that has not arrived.  got is the channel's buffer: the
\* request whose frame the buffered response answers (0: empty); frame is the
\* state of the request frame sent for it.
NoRequest == [pc |-> "idle", tun |-> 0, rid |-> 0, got |-> 0, frame |-> "none",
              res |-> "none"]

NoDecision == [kind |-> "none", peer |-> NoPeer, allow |-> FALSE]

\* A point in time: min full minutes and ns nanoseconds (a few before or after
\* the minute) since the epoch; a duration likewise.  The code holds both in
\* 64-bit nanosecond counts.
Times == [min : 0..MaxMinutes, ns : (0 - MaxNanos)..MaxNanos]

\* No signature, and no request.
NoSig == [key |-> NoPeer, payload |-> <<>>]
NoWire == [pc |-> "idle", req |-> <<>>, signed |-> <<>>, key |-> NoPeer,
           pub |-> NoPeer, now |-> [min |-> 0, ns |-> 0], verdict |-> "none",
           valid |-> "none"]

\* No write of the trust file is under way and the file is whole.  before and
\* after are the lists of the write under way (or of the one a crash ended);
\* torn says that the file holds no complete list.
NoSave == [pc |-> "idle", before |-> {}, after |-> {}, torn |-> FALSE]

\* No goroutine (as the holder of a lock), no frame, no handleRequest goroutine.
Nobody == [who |-> "nobody", q |-> 0]
NoFrame == [type |-> "none", d |-> 0, rid |-> 0, q |-> 0]
NoHandler == [pc |-> "none", d |-> 0, rid |-> 0, code |-> 0]

\* The provider's connection to the gateway before anything is sent.  up and
\* down are the frames written and not yet read, towards the gateway and
\* towards the provider; cmu and tcmu are the holders of Client.mu and of
\* TunnelConn.mu; reader is the position of Client.handleMessages, greader that
\* of the gateway's handleTunnelConn with the frame it handles, caller that of
\* the goroutine in RegisterDeployment, handler that of the handleRequest
\* goroutine started for the frame of each public request; want is the
\* deployment a public request asks for, called the ids RegisterDeployment has
\* been called with.
NoLink == [up |-> <<>>, down |-> <<>>, cmu |-> Nobody, tcmu |-> Nobody,
           reader |-> "lock", greader |-> [pc |-> "read", msg |-> NoFrame],
           caller |-> [pc |-> "idle", d |-> 0, port |-> 0],
           handler |-> [q \in Publics |-> NoHandler],
           want |-> [q \in Publics |-> 0], called |-> {}]

Init ==
  /\ clock = 1
  /\ heap = [r \in Refs |-> NoObj]
  /\ deployments = [i \in Ids |-> 0]
  /\ usedCPU = 0
  /\ usedMemory = 0
  /\ containers = {}
  /\ task = [t \in Tasks |-> Idle]
  /\ crashed = FALSE
  /\ peers = {}
  /\ conns = {}
  /\ gate = NoDecision
  /\ streams = 0
  /\ routes = [i \in Ids |-> 0]
  /\ connected = TRUE
  /\ client = ClientStarted
  /\ trustFile = {}
  /\ save = NoSave
  /\ wire = NoWire
  /\ link = NoLink
  /\ tmTunnels = [p \in PeerIds |-> 0]
  /\ tmRoutes = [d \in Ids |-> 0]
  /\ tc = [k \in Tunnels |-> NoTunnel]
  /\ public = [q \in Publics |-> NoRequest]

\* The steps of the scheduler's own code, whoever called it.
SchedulerStep(t) ==
  \/ ScheduleInstall(t)
  \/ ScheduleToPulling(t)
  \/ SchedulePull(t)
  \/ ScheduleRun(t)
  \/ ScheduleStore(t)
  \/ StopRuntime(t)
  \/ StopRelease(t)
  \/ StopAllNext(t)
  \/ Return(t)

\* The scheduler under concurrent direct calls of Schedule, Stop and StopAll.
Next ==
  \/ Tick
  \/ \E t \in Tasks :
       \/ ScheduleCall(t)
       \/ StopCall(t)
       \/ StopAllCall(t)
       \/ SchedulerStep(t)

Spec == Init /\ [][Next]_vars

\* ----------------------------------------------------- trust and the gate
\* TrustManager.IsTrusted.
IsTrusted(p) == p \in peers

\* A gate whose post-handshake decision lets everybody in.
AllowEverybody(p) == TRUE

\* ConnectionGater: the four decisions.
InterceptPeerDial(p) == IsTrusted(p)
InterceptAddrDial(p) == IsTrusted(p)
InterceptAccept == TRUE
InterceptSecured(p) == IsTrusted(p)

GateKinds == {"peerDial", "addrDial", "accept", "secured"}

\* The decision of kind k about peer p.
Intercept(k, p) ==
  CASE k = "peerDial" -> InterceptPeerDial(p)
    [] k = "addrDial" -> InterceptAddrDial(p)
    [] k = "accept" -> InterceptAccept
    [] k = "secured" -> InterceptSecured(p)

\* How saveUnlocked's write of the file ends: the list is written; the
\* directory or the file cannot be opened and the file stays as it was; or the
\* write fails after the open has emptied the file.
WriteOutcomes == {"written", "refused", "torn"}

\* TrustManager.saveUnlocked for the list in memory, as the file it leaves and
\* the record of the write: nothing to note after a write that succeeded, the
\* sets before and after the call for one that returned an error.
SavedFile(list, out) ==
  CASE out = "written" -> list
    [] out = "refused" -> trustFile
    [] out = "torn" -> {}

SaveRecord(list, out) ==
  IF out = "written" THEN NoSave
  ELSE [pc |-> "failed", before |-> peers, after |-> list, torn |-> (out = "torn")]

\* TrustManager.Add: the peer is put into the map (a peer already there gets
\* its name and addresses renewed), then the list is saved; Add returns what
\* saveUnlocked returns.
Add(p, out) ==
  /\ peers' = peers \cup {p}
  /\ trustFile' = SavedFile(peers \cup {p}, out)
  /\ save' = SaveRecord(peers \cup {p}, out)
  /\ UNCHANGED <<clock, heap, deployments, usedCPU, usedMemory, containers, task,
                 crashed, conns, gate, streams, tunnelVars, client, wire, link,
                 gatewayVars>>

\* TrustManager.Remove: an error, and no change, unless the store holds the
\* peer; else the peer is deleted and the list saved.
Remove(p, out) ==
  /\ p \in peers
  /\ peers' = peers \ {p}
  /\ trustFile' = SavedFile(peers \ {p}, out)
  /\ save' = SaveRecord(peers \ {p}, out)
  /\ UNCHANGED <<clock, heap, deployments, usedCPU, usedMemory, containers, task,
                 crashed, conns, gate, streams, tunnelVars, client, wire, link,
                 gatewayVars>>

\* TrustManager.Add of a peer the store does not hold, and TrustManager.Remove,
\* on a file system that works.
TrustAdd(p) == p \notin peers /\ Add(p, "written")
TrustRemove(p) == Remove(p, "written")

\* The network stack asks the gate; a connection the post-handshake decision
\* allows is established.
GateDecide(k, p) ==
  /\ gate' = [kind |-> k, peer |-> p, allow |-> Intercept(k, p)]
  /\ conns' = IF k = "secured" /\ Intercept(k, p) THEN conns \cup {p} ELSE conns
  /\ UNCHANGED <<clock, heap, deployments, usedCPU, usedMemory, containers, task,
                 crashed, peers, streams, tunnelVars, outsideVars>>

\* The connection to a peer closes.
Disconnect(p) ==
  /\ p \in conns
  /\ conns' = conns \ {p}
  /\ UNCHANGED <<clock, heap, deployments, usedCPU, usedMemory, containers, task,
                 crashed, peers, gate, streams, tunnelVars, outsideVars>>

NextGate ==
  \/ \E p \in PeerIds : TrustAdd(p) \/ TrustRemove(p) \/ Disconnect(p)
  \/ \E k \in GateKinds, p \in PeerIds : GateDecide(k, p)

\* The trust store and the gate, with the store changing between decisions.
SpecGate == Init /\ [][NextGate]_vars

\* --------------------------------------------------------------- handlers
\* An inbound connection passes the gate's accept and post-handshake decisions.
Accept(p) ==
  /\ p \notin conns
  /\ InterceptAccept
  /\ InterceptSecured(p)
  /\ conns' = conns \cup {p}
  /\ UNCHANGED <<clock, heap, deployments, usedCPU, usedMemory, containers, task,
                 crashed, peers, gate, streams, tunnelVars, outsideVars>>

\* The deploy requests peer p sends: a well-formed one, with and without an
\* exposed port, and ones with a signature that does not verify, with a
\* timestamp six minutes old, and with somebody else's requester_id.  All carry
\* the same request_id: each is a copy of one captured request.
DeployRequests(p) ==
  LET good == [cpu |-> 1, mem |-> 1, port |-> 0, declared |-> p, sig |-> TRUE,
               drift |-> 0, rid |-> 1]
  IN {good,
      [good EXCEPT !.port = 1],
      [good EXCEPT !.sig = FALSE],
      [good EXCEPT !.drift = MaxTimestampDrift + 1],
      [good EXCEPT !.declared = CHOOSE q \in PeerIds : q # p]}

\* handleDeploy, lines 55-86: read the request, check trust, pull the image.
HandleDeploy(t) ==
  /\ Free(t)
  /\ streams < MaxStreams
  /\ streams' = streams + 1
  /\ \E p \in conns : \E req \in DeployRequests(p) :
       LET tk == [Idle EXCEPT !.op = "deploy", !.pc = "schedule", !.peer = p,
                              !.cpu = req.cpu, !.mem = req.mem, !.port = req.port,
                              !.declared = req.declared, !.sig = req.sig,
                              !.drift = req.drift, !.rid = req.rid]
       IN IF ~IsTrusted(p)
          THEN task' = [task EXCEPT ![t] = Done(tk, "not-trusted")]
          ELSE \/ task' = [task EXCEPT ![t] = Done(tk, "pull-failed")]
               \/ task' = [task EXCEPT ![t] = tk]
  /\ UNCHANGED <<clock, heap, deployments, usedCPU, usedMemory, containers, crashed>>
  /\ UNCHANGED <<peers, conns, gate, tunnelVars, outsideVars>>

\* handleDeploy, lines 88-96: call Schedule with the stream's peer as requester.
HandleDeploySchedule(t) ==
  /\ task[t].pc = "schedule"
  /\ LET tk == ScheduleEnter([task[t] EXCEPT !.declared = NoPeer, !.sig = FALSE,
                                              !.drift = 0, !.rid = 0])
     IN /\ task' = [task EXCEPT ![t] = tk]
        /\ UNCHANGED deployments
        /\ heap' = Sweep(IF tk.pc = "install"
                         THEN [heap EXCEPT ![tk.obj] = NewDeployment(tk)]
                         ELSE heap)
  /\ UNCHANGED <<clock, usedCPU, usedMemory, containers, crashed>>
  /\ UNCHANGED <<p2pVars, tunnelVars, outsideVars>>

\* tunnel.Client.RegisterDeployment and UnregisterDeployment, as the route
\* table they leave.
RegisterDeployment(id, port) == [routes EXCEPT ![id] = port]
UnregisterDeployment(id) == [routes EXCEPT ![id] = 0]

\* handleDeploy, lines 104-127: log the first characters of the returned
\* record's container handle (slicing an empty handle panics), register the
\* route if a port is exposed, reply.
HandleDeployReply(t) ==
  LET tk == task[t] IN
  /\ tk.pc = "reply"
  /\ IF heap[tk.obj].ContainerID = 0
     THEN /\ crashed' = TRUE
          /\ task' = [u \in Tasks |-> Dead]
          /\ UNCHANGED <<deployments, routes>>
          /\ heap' = Sweep(heap)
     ELSE /\ task' = [task EXCEPT ![t] = Done(tk, "ok")]
          /\ routes' = IF connected /\ tk.port > 0
                       THEN RegisterDeployment(tk.id, tk.port) ELSE routes
          /\ UNCHANGED <<deployments, crashed>>
          /\ heap' = Sweep(heap)
  /\ UNCHANGED <<clock, usedCPU, usedMemory, containers, connected, p2pVars,
                 outsideVars>>

\* handleStop, lines 211-232: read the request, unregister the route, enter Stop.
HandleStop(t) ==
  /\ Free(t)
  /\ streams < MaxStreams
  /\ streams' = streams + 1
  /\ \E p \in conns, id \in Ids :
       /\ StopBegin(t, [Idle EXCEPT !.op = "stopReq", !.peer = p], id)
       /\ routes' = IF connected THEN UnregisterDeployment(id) ELSE routes
  /\ UNCHANGED <<clock, usedCPU, usedMemory, containers, crashed, connected, peers, conns,
                 gate, outsideVars>>

\* handleLogs: look the deployment up and stream its container's logs; the
\* stream is closed with nothing written if the id is unknown.
HandleLogs(t) ==
  /\ Free(t)
  /\ streams < MaxStreams
  /\ streams' = streams + 1
  /\ \E p \in conns, id \in Ids :
       task' = [task EXCEPT ![t] =
                  Done([Idle EXCEPT !.op = "logs", !.peer = p, !.id = id],
                       IF deployments[id] # 0 THEN "logs" ELSE "closed")]
  /\ UNCHANGED <<clock, heap, deployments, usedCPU, usedMemory, containers, crashed>>
  /\ UNCHANGED <<peers, conns, gate, tunnelVars, outsideVars>>

\* handleStatus: reply with the status of one deployment.
HandleStatus(t) ==
  /\ Free(t)
  /\ streams < MaxStreams
  /\ streams' = streams + 1
  /\ \E p \in conns, id \in Ids :
       task' = [task EXCEPT ![t] =
                  Done([Idle EXCEPT !.op = "status", !.peer = p, !.id = id], "status")]
  /\ UNCHANGED <<clock, heap, deployments, usedCPU, usedMemory, containers, crashed>>
  /\ UNCHANGED <<peers, conns, gate, tunnelVars, outsideVars>>

\* The daemon serving streams: trust changes, connections, the four handlers
\* and the scheduler code they run.
NextHandler ==
  \/ Tick
  \/ \E p \in PeerIds : TrustAdd(p) \/ TrustRemove(p) \/ Accept(p)
  \/ \E t \in Tasks :
       \/ HandleDeploy(t)
       \/ HandleDeploySchedule(t)
       \/ HandleDeployReply(t)
       \/ HandleStop(t)
       \/ HandleLogs(t)
       \/ HandleStatus(t)
       \/ ScheduleInstall(t)
       \/ ScheduleToPulling(t)
       \/ SchedulePull(t)
       \/ ScheduleRun(t)
       \/ ScheduleStore(t)
       \/ StopRuntime(t)
       \/ StopRelease(t)
       \/ Return(t)

SpecHandler == Init /\ [][NextHandler]_vars

\* ------------------------------------------------------------ properties
\* C1: in every reachable state the CPU limits of the deployments in the map
\* sum to at most maxCPU, their memory limits to at most maxMemory, and there
\* are at most maxSlots of them.
C1_CapacityNeverExceeded ==
  /\ SumCPU(MapIds) <= maxCPU
  /\ SumMemory(MapIds) <= maxMemory
  /\ Slots <= maxSlots

\* A handler's first step has served the request unless it refused the peer or
\* found no such deployment.
Served(tk) == ~(tk.pc = "done" /\ tk.res \in {"not-trusted", "not-found", "closed"})

\* C2: a deploy, stop, logs or status stream is served only if its peer is in
\* the trust store when the handler takes the request.
C2_HandlersServeTrustedOnly ==
  [][\A t \in Tasks :
       (task[t].pc = "idle"
        /\ task'[t].op \in {"deploy", "stopReq", "logs", "status"}
        /\ Served(task'[t]))
       => IsTrusted(task'[t].peer)]_vars

\* C3: a dial decision and the post-handshake decision allow exactly if the
\* peer is in the trust store at the moment of the call, the decision on a raw
\* inbound connection always allows, and a connection is established only to a
\* peer the store holds; so after Remove(p) the decisions about p deny.
C3_GateAllowsIffTrusted ==
  [][/\ gate' # gate =>
          (gate'.allow <=> (gate'.kind = "accept" \/ gate'.peer \in peers))
     /\ (conns' \ conns) \subseteq peers]_vars

\* A peer that connected while trusted and was then removed is refused by the
\* post-handshake decision.
C3_Witness ==
  /\ gate.kind = "secured"
  /\ gate.peer \in conns
  /\ gate.peer \notin peers
  /\ ~gate.allow

\* Schedule, called by the deploy handler, has accepted the request and
\* created its deployment record.
Admits(t) == task[t].op = "deploy" /\ task[t].pc = "schedule" /\ task'[t].pc = "install"

\* C4: the deploy handler admits a request only if its signature verifies and
\* its timestamp is within MaxTimestampDrift of the provider's clock.
C4_AdmitsOnlyVerifiedRequests ==
  [][\A t \in Tasks :
       Admits(t) => /\ task[t].sig
                    /\ task[t].drift <= MaxTimestampDrift
                    /\ 0 - task[t].drift <= MaxTimestampDrift]_vars

\* C5: the deploy handler admits a request only if its declared requester_id
\* is the authenticated peer of the stream.
C5_AdmitsOnlyDeclaredRequester ==
  [][\A t \in Tasks : Admits(t) => task[t].declared = task[t].peer]_vars

\* C6: Stop runs for a stop request only if the stream's peer is the requester
\* stored with the deployment.
C6_StopOnlyByOwner ==
  \A t \in Tasks :
    (task[t].op = "stopReq" /\ task[t].pc \in {"stopRuntime", "stopRelease"})
    => heap[task[t].obj].RequesterID = task[t].peer

\* C7: whenever the lock is free, the totals are the sums over the deployments
\* in the map (none of which is Stopped, Failed or Terminated): nothing is
\* counted twice.
C7_TotalsMatchDeployments ==
  /\ usedCPU = SumCPU(MapIds)
  /\ usedMemory = SumMemory(MapIds)
  /\ \A i \in MapIds : Dep(i).Status \notin {StatusStopped, StatusFailed, StatusTerminated}

\* Schedule returns a pull or run error in this step.
Fails(t) ==
  /\ task[t].pc \in {"pull", "run"}
  /\ task'[t].pc = "done"
  /\ task'[t].res \in {"pull-failed", "run-failed"}

\* C8: when Schedule returns a pull or run error, its id is out of the map and
\* the step has given back exactly what the call reserved, from its own record.
C8_FailureRestoresTotals ==
  [][\A t \in Tasks :
       Fails(t) =>
         /\ deployments'[task[t].id] = 0
         /\ deployments[task[t].id] # 0 =>
              /\ deployments[task[t].id] = task[t].obj
              /\ usedCPU' = usedCPU - task[t].cpu
              /\ usedMemory' = usedMemory - task[t].mem]_vars

\* C9: once Stop has found a deployment in status Pulling, the Schedule call
\* that owns the record starts no container for it.
C9_StopDuringPullStartsNothing ==
  \A s, t \in Tasks :
    (task[s].pulling /\ task[t].op \in {"schedule", "deploy"}
     /\ task[t].obj = task[s].obj)
    => task[t].cid = 0

\* C10: when Schedule returns success, the record it returns is in the map
\* under its id, Running, with the handle the runtime returned.
C10_SuccessMeansRunning ==
  [][\A t \in Tasks :
       (task[t].pc = "store" /\ task'[t].pc \in {"done", "reply"})
       => /\ deployments'[task[t].id] = task[t].obj
          /\ heap'[task[t].obj].Status = StatusRunning
          /\ heap'[task[t].obj].ContainerID = task[t].cid]_vars

\* ------------------------------------------------- the operator's commands
\* TrustManager.saveUnlocked as far as os.WriteFile's open: the file is opened
\* with O_TRUNC, which empties it; the list is written afterwards.
saveUnlocked(list) == [pc |-> "writing", before |-> trustFile, after |-> list, torn |-> TRUE]

\* peerctl peers add: a separate process loads the file (a file that does not
\* parse ends the command), adds the peer and begins to write the file back.
PeerctlAdd(p) ==
  /\ save.pc = "idle"
  /\ p \notin trustFile
  /\ save' = saveUnlocked(trustFile \cup {p})
  /\ trustFile' = {}
  /\ UNCHANGED <<clock, heap, deployments, usedCPU, usedMemory, containers, task,
                 crashed, p2pVars, tunnelVars, client, wire, link, gatewayVars>>

\* peerctl peers remove: a separate process loads the file, removes the peer
\* (an error if the file does not hold it) and begins to write the file back.
PeerctlRemove(p) ==
  /\ save.pc = "idle"
  /\ p \in trustFile
  /\ save' = saveUnlocked(trustFile \ {p})
  /\ trustFile' = {}
  /\ UNCHANGED <<clock, heap, deployments, usedCPU, usedMemory, containers, task,
                 crashed, p2pVars, tunnelVars, client, wire, link, gatewayVars>>

\* os.WriteFile writes the list and closes the file; the command ends.
PeerctlWritten ==
  /\ save.pc = "writing"
  /\ trustFile' = save.after
  /\ save' = NoSave
  /\ UNCHANGED <<clock, heap, deployments, usedCPU, usedMemory, containers, task,
                 crashed, p2pVars, tunnelVars, client, wire, link, gatewayVars>>

\* The peerctl process dies (it is killed, or the machine loses power) after
\* the open and before the write has finished; the file stays as it is, and
\* no later command gets past Load's parse error.
PeerctlCrash ==
  /\ save.pc = "writing"
  /\ save' = [save EXCEPT !.pc = "crashed"]
  /\ UNCHANGED <<clock, heap, deployments, usedCPU, usedMemory, containers, task,
                 crashed, p2pVars, tunnelVars, client, trustFile, wire, link, gatewayVars>>

\* The daemon starts: run() builds a trust store and loads the file into it,
\* once, before it starts the host (a file that does not parse is logged and
\* leaves the store empty).  Nothing of an earlier process is left.
DaemonStart ==
  /\ peers' = trustFile
  /\ conns' = {}
  /\ gate' = NoDecision
  /\ UNCHANGED <<clock, heap, deployments, usedCPU, usedMemory, containers, task,
                 crashed, streams, tunnelVars, outsideVars>>

NextOperator ==
  \/ DaemonStart
  \/ PeerctlWritten
  \/ PeerctlCrash
  \/ \E p \in PeerIds : PeerctlAdd(p) \/ PeerctlRemove(p) \/ Disconnect(p)
  \/ \E k \in GateKinds, p \in PeerIds : GateDecide(k, p)

\* The daemon's gate while the operator edits the trust file with peerctl.
SpecOperator == Init /\ [][NextOperator]_vars

\* ------------------------------------------------------ the tunnel client
\* Everything but the tunnel client.
nonClientVars == <<clock, heap, deployments, usedCPU, usedMemory, containers, task,
                   crashed, p2pVars, trustFile, save, wire, link, gatewayVars>>

Ports == 1..MaxPort

\* Client.RegisterDeployment, called with the connection up or down: an error
\* and no change unless the client is connected.
ClientRegister(d, port) ==
  /\ ~client.closed
  /\ routes' = IF connected THEN RegisterDeployment(d, port) ELSE routes
  /\ routes' # routes
  /\ UNCHANGED <<connected, client, nonClientVars>>

\* Client.UnregisterDeployment: the route is deleted if the frame could be
\* written; on a connection already lost the write may fail or still succeed.
ClientUnregister(d) ==
  /\ ~client.closed
  /\ routes[d] # 0
  /\ \/ routes' = UnregisterDeployment(d)
     \/ ~connected /\ UNCHANGED routes
  /\ UNCHANGED <<connected, client, nonClientVars>>

\* handleMessages, lines 214-223: the read fails (the connection is lost, or
\* Close has closed it); the loop marks the client disconnected and returns.
ClientLost ==
  /\ client.reader = "running"
  /\ connected' = FALSE
  /\ client' = [client EXCEPT !.reader = "exited"]
  /\ UNCHANGED <<routes, nonClientVars>>

\* heartbeat: the ticker fires; the loop returns if the client is disconnected
\* or closed, and does nothing else.
ClientHeartbeat ==
  /\ client.heartbeat = "running"
  /\ ~connected \/ client.closed
  /\ client' = [client EXCEPT !.heartbeat = "exited"]
  /\ UNCHANGED <<routes, connected, nonClientVars>>

\* Client.Close, at the daemon's shutdown.
ClientClose ==
  /\ ~client.closed
  /\ connected' = FALSE
  /\ client' = [client EXCEPT !.closed = TRUE]
  /\ UNCHANGED <<routes, nonClientVars>>

\* A sendResponse that writes its frame twice.
TwoResponses(sent, rid) == [sent EXCEPT ![rid] = @ + 2]

\* Client.sendResponse: one response frame carrying the request's id is written
\* to the connection.  sent counts the frames written, by request id.
sendResponse(sent, rid) == [sent EXCEPT ![rid] = @ + 1]

\* What a call of sendResponse leaves: the frame is written if the connection
\* is up; on a connection already lost the write may fail or still succeed.
ClientResponds(cl, rid) ==
  {[cl EXCEPT !.sent = sendResponse(@, rid)]} \cup (IF connected THEN {} ELSE {cl})

\* handleMessages, case "request", and handleRequest, lines 243-250: a request
\* frame with request id rid for deployment d arrives and gets a goroutine of
\* its own; without a route for d a 404 is sent back at once, with one the
\* request is forwarded to the container.
ClientRequest(rid, d) ==
  /\ client.reader = "running"
  /\ connected
  /\ rid \notin client.seen
  /\ LET cl == [client EXCEPT !.seen = @ \cup {rid}] IN
     IF routes[d] = 0
     THEN client' \in ClientResponds(cl, rid)
     ELSE client' = [cl EXCEPT !.forwarding = @ \cup {rid}]
  /\ UNCHANGED <<routes, connected, nonClientVars>>

\* handleRequest, lines 252-287: the request could not be built (500), the
\* container could not be reached (502) or it answered; on each of the three
\* paths the goroutine calls sendResponse once and returns.
ClientForwarded(rid) ==
  /\ rid \in client.forwarding
  /\ client' \in ClientResponds([client EXCEPT !.forwarding = @ \ {rid}], rid)
  /\ UNCHANGED <<routes, connected, nonClientVars>>

NextTunnel ==
  \/ ClientLost
  \/ ClientHeartbeat
  \/ ClientClose
  \/ \E d \in Ids :
       \/ \E port \in Ports : ClientRegister(d, port)
       \/ ClientUnregister(d)
       \/ \E rid \in Ids : ClientRequest(rid, d)
       \/ ClientForwarded(d)

\* The tunnel client with its callers and its connection.  The client's own
\* goroutines keep running: a heartbeat or a forwarded request that can take its
\* step eventually takes it.  Callers, the network and the shutdown are free.
SpecTunnel ==
  /\ Init
  /\ [][NextTunnel]_vars
  /\ WF_vars(ClientHeartbeat)
  /\ WF_vars(\E d \in Ids : ClientForwarded(d))

\* ------------------------------------------------------------ the gateway
\* Everything but the clock and the gateway.
daemonVars == <<heap, deployments, usedCPU, usedMemory, containers, task, crashed,
                p2pVars, tunnelVars, client, trustFile, save, wire, link>>

\* handleTunnelConn, lines 252-264: the gateway accepts a tunnel connection.
TunnelConnect(k) ==
  /\ tc[k].state = "new"
  /\ \A j \in 1..(k - 1) : tc[j].state # "new"
  /\ tc' = [tc EXCEPT ![k].state = "open"]
  /\ UNCHANGED <<clock, daemonVars, tmTunnels, tmRoutes, public>>

\* The route index after a register frame for deployment d on tunnel k, and
\* after an unregister frame for d: the gateway's map, and the tunnel's table.
RegisterRoute(index, k, d) == [index EXCEPT ![d] = k]
RegisterTable(table, d) == table \cup {d}
UnregisterRoute(index, d) == [index EXCEPT ![d] = 0]
UnregisterTable(table, d) == table \ {d}

\* handleTunnelConn, case "register": a frame with peer id p and deployment d.
TunnelRegister(k, p, d) ==
  /\ tc[k].state = "open"
  /\ tc' = [tc EXCEPT ![k].PeerID = p, ![k].Routes = RegisterTable(@, d)]
  /\ tmTunnels' = [tmTunnels EXCEPT ![p] = k]
  /\ tmRoutes' = RegisterRoute(tmRoutes, k, d)
  /\ UNCHANGED <<clock, daemonVars, public>>

\* handleTunnelConn, case "unregister".
TunnelUnregister(k, d) ==
  /\ tc[k].state = "open"
  /\ tmRoutes' = UnregisterRoute(tmRoutes, d)
  /\ tc' = [tc EXCEPT ![k].Routes = UnregisterTable(@, d)]
  /\ UNCHANGED <<clock, daemonVars, tmTunnels, public>>

\* handleTunnelConn, case "response": the provider answers the request frame
\* sent for public request q.  The response goes into the channel in the slot
\* of its request id, if there is one; a send on a full channel never returns,
\* and the read loop stays in it holding the connection's lock.
TunnelResponse(k, q) ==
  LET slot == tc[k].pending[public[q].rid] IN
  /\ tc[k].state = "open"
  /\ public[q].tun = k
  /\ public[q].frame = "sent"
  /\ IF slot = 0
     THEN /\ public' = [public EXCEPT ![q].frame = "answered"]
          /\ UNCHANGED tc
     ELSE IF public[slot].got # 0
     THEN /\ public' = [public EXCEPT ![q].frame = "answered"]
          /\ tc' = [tc EXCEPT ![k].state = "blocked"]
     ELSE /\ public' = [public EXCEPT ![q].frame = "answered", ![slot].got = q]
          /\ tc' = [tc EXCEPT ![k].pending[public[q].rid] = 0]
  /\ UNCHANGED <<clock, daemonVars, tmTunnels, tmRoutes>>

\* handleTunnelConn, lines 265-272 and 321-333: the read fails, the loop ends
\* and the handler cleans the indices up.  Of the TunnelConn only the pending
\* map is still in use afterwards, by the requests that hold the connection.
TunnelDisconnect(k) ==
  /\ tc[k].state = "open"
  /\ tc' = [tc EXCEPT ![k] = [NoTunnel EXCEPT !.state = "closed",
                                              !.pending = tc[k].pending]]
  /\ tmTunnels' = [p \in PeerIds |-> IF p = tc[k].PeerID THEN 0 ELSE tmTunnels[p]]
  /\ tmRoutes' = [d \in Ids |-> IF d \in tc[k].Routes THEN 0 ELSE tmRoutes[d]]
  /\ UNCHANGED <<clock, daemonVars, public>>

\* The next public request is served by the first goroutine not yet used.
NextPublic(q) == public[q].pc = "idle" /\ \A r \in 1..(q - 1) : public[r].pc # "idle"

\* ServeHTTP and proxyRequest, line 464, as the goroutine's state afterwards:
\* 404 without a route for the subdomain, else the tunnel and a request id.
ServeHTTP(d) ==
  IF tmRoutes[d] = 0
  THEN [NoRequest EXCEPT !.pc = "done", !.res = "404"]
  ELSE [NoRequest EXCEPT !.pc = "install", !.tun = tmRoutes[d], !.rid = clock]

\* ServeHTTP and proxyRequest, line 464: look the subdomain's tunnel up and
\* draw the request id from the clock.
PublicLookup(q, d) ==
  /\ NextPublic(q)
  /\ public' = [public EXCEPT ![q] = ServeHTTP(d)]
  /\ UNCHANGED <<clock, daemonVars, tmTunnels, tmRoutes, tc>>

\* TunnelConn.Request, lines 350-354: put the channel in the slot.
PublicInstall(q) ==
  /\ public[q].pc = "install"
  /\ tc[public[q].tun].state # "blocked"
  /\ tc' = [tc EXCEPT ![public[q].tun].pending[public[q].rid] = q]
  /\ public' = [public EXCEPT ![q].pc = "send"]
  /\ UNCHANGED <<clock, daemonVars, tmTunnels, tmRoutes>>

\* A timeout that leaves the slot in the map.
KeepSlot(pending, rid) == pending

\* The slot of request id rid is deleted from a pending map.
DeleteSlot(pending, rid) == [pending EXCEPT ![rid] = 0]

\* TunnelConn.Request, lines 356-361: send the request frame; on a closed
\* connection the write fails, the slot is deleted and the error returned.
PublicSend(q) ==
  LET k == public[q].tun IN
  /\ public[q].pc = "send"
  /\ tc[k].state # "blocked"
  /\ IF tc[k].state = "closed"
     THEN /\ tc' = [tc EXCEPT ![k].pending = DeleteSlot(@, public[q].rid)]
          /\ public' = [public EXCEPT ![q].pc = "done", ![q].res = "502"]
     ELSE /\ public' = [public EXCEPT ![q].pc = "waiting", ![q].frame = "sent"]
          /\ UNCHANGED tc
  /\ UNCHANGED <<clock, daemonVars, tmTunnels, tmRoutes>>

\* TunnelConn.Request, line 364: the response is taken from the channel.
PublicReceive(q) ==
  /\ public[q].pc = "waiting"
  /\ public[q].got # 0
  /\ public' = [public EXCEPT ![q].pc = "done", ![q].res = "200"]
  /\ UNCHANGED <<clock, daemonVars, tmTunnels, tmRoutes, tc>>

\* TunnelConn.Request, lines 366-370: the 30-second timer fires.  By then the
\* clock has moved on, and every request that drew its id no later than this
\* one has long installed its slot and sent its frame.
PublicTimeout(q) ==
  LET k == public[q].tun IN
  /\ public[q].pc = "waiting"
  /\ clock > public[q].rid
  /\ \A r \in Publics : public[r].pc \in {"install", "send"} => public[r].rid > public[q].rid
  /\ tc[k].state # "blocked"
  /\ tc' = [tc EXCEPT ![k].pending = DeleteSlot(@, public[q].rid)]
  /\ public' = [public EXCEPT ![q].pc = "done", ![q].res = "timeout"]
  /\ UNCHANGED <<clock, daemonVars, tmTunnels, tmRoutes>>

NextGateway ==
  \/ Tick
  \/ \E k \in Tunnels :
       \/ TunnelConnect(k)
       \/ \E p \in PeerIds, d \in Ids : TunnelRegister(k, p, d)
       \/ \E d \in Ids : TunnelUnregister(k, d)
       \/ \E q \in Publics : TunnelResponse(k, q)
       \/ TunnelDisconnect(k)
  \/ \E q \in Publics :
       \/ \E d \in Ids : PublicLookup(q, d)
       \/ PublicInstall(q)
       \/ PublicSend(q)
       \/ PublicReceive(q)
       \/ PublicTimeout(q)

\* The gateway: tunnels of providers that register and unregister routes, and
\* public requests proxied through them.
SpecGateway == Init /\ [][NextGateway]_vars

\* ------------------------------------------------------ properties, C11-C20
\* C11: every deployment id is in the route table of at most one connected
\* tunnel, and the route index maps it to that tunnel.
C11_RouteHasOneOwner ==
  \A d \in Ids : \A k \in Tunnels :
    (tc[k].state = "open" /\ d \in tc[k].Routes)
    => /\ tmRoutes[d] = k
       /\ \A j \in Tunnels : (tc[j].state = "open" /\ d \in tc[j].Routes) => j = k

\* C12: once the gateway has handled a tunnel's disconnect, neither index has
\* an entry that refers to the tunnel.
C12_DisconnectPurgesIndices ==
  \A k \in Tunnels :
    tc[k].state = "closed"
    => /\ \A p \in PeerIds : tmTunnels[p] # k
       /\ \A d \in Ids : tmRoutes[d] # k

\* C13: once the gateway has handled a tunnel's disconnect, no public request
\* is still waiting on a response slot of that tunnel.
C13_DisconnectSignalsWaiters ==
  \A q \in Publics : public[q].pc = "waiting" => tc[public[q].tun].state # "closed"

\* C14: two public requests pending on one tunnel have different request ids,
\* and a request receives only the response to its own request frame.
C14_PendingIdsDistinct ==
  /\ \A q, r \in Publics :
       (q # r /\ public[q].pc \in {"send", "waiting"} /\ public[r].pc \in {"send", "waiting"}
        /\ public[q].tun = public[r].tun)
       => public[q].rid # public[r].rid
  /\ \A q \in Publics : public[q].got \in {0, q}

\* The response to the frame of request q, which has timed out, is handled in
\* this step.
LateResponse(q) ==
  /\ public[q].res = "timeout"
  /\ public[q].frame = "sent"
  /\ public'[q].frame = "answered"

C16_ClientReconnects == (~connected /\ ~client.closed) ~> (connected \/ client.closed)

\* C17: no handler invocation ends in a crash instead of a reply.
C17_HandlersNeverCrash == ~crashed

\* C18: a deploy request inside the timestamp window is admitted only if no
\* deployment admitted from a request of the same requester with the same
\* request id (every request of a peer carries the one request id) exists.
C18_RequestIdAdmittedOnce ==
  [][\A t \in Tasks :
       (Admits(t) /\ task[t].drift <= MaxTimestampDrift)
       => \A i \in MapIds : Dep(i).RequesterID # task[t].peer]_vars

\* C19: once peerctl has removed a peer from the trust file, the running
\* daemon's post-handshake decision refuses that peer's connections.
C19_RemovedPeerRefused ==
  [][(gate' # gate /\ gate'.kind = "secured" /\ save.pc = "idle"
      /\ gate'.peer \notin trustFile)
     => ~gate'.allow]_vars

\* The statuses in their order; a terminal status has no successor.
Rank(status) ==
  CASE status = StatusPending -> 1
    [] status = StatusPulling -> 2
    [] status = StatusStarting -> 3
    [] status = StatusRunning -> 4
    [] status = StatusStopping -> 5
    [] OTHER -> 6

Terminal == {StatusStopped, StatusFailed, StatusTerminated}

\* A record's status may stay, move forward, or jump to a terminal status.
Forward(old, new) ==
  \/ new = old
  \/ old \notin Terminal /\ (new \in Terminal \/ Rank(new) > Rank(old))

\* C20: no step takes the status of a deployment record back to an earlier
\* one, and none leaves a terminal status.
C20_StatusOnlyForward ==
  [][\A r \in Refs :
       (heap[r] # NoObj /\ heap'[r] # NoObj)
       => Forward(heap[r].Status, heap'[r].Status)]_vars

\* --------------------------------------------------- signed requests
\* time.Time.Sub, and the comparison of two durations (of their nanosecond
\* counts).
Sub(t, u) == [min |-> t.min - u.min, ns |-> t.ns - u.ns]
Less(d, e) == d.min < e.min \/ (d.min = e.min /\ d.ns < e.ns)
Negated(d) == [min |-> 0 - d.min, ns |-> 0 - d.ns]

\* protocol.MaxTimestampDrift and security.MaxTimestampDrift as a duration.
MaxDrift == [min |-> MaxTimestampDrift, ns |-> 0]

\* drift > MaxTimestampDrift, and a check that also refuses the limit itself.
AtOrAfter(d, e) == ~Less(d, e)
After(d, e) == Less(e, d)

\* security.ValidateTimestamp with the verifier's clock at now.
ValidateTimestamp(timestamp, now) ==
  LET drift == Sub(now, timestamp) IN
  IF Less(drift, Negated(MaxDrift)) THEN "future"
  ELSE IF After(drift, MaxDrift) THEN "too-old"
  ELSE "ok"

\* identity.Sign: an Ed25519 signature is good for one key and one payload.
Sign(key, payload) == [key |-> key, payload |-> payload]

\* protocol.createSigningPayload: the hash of the canonical encoding of every
\* field but the signature.
createSigningPayload(req) ==
  <<"sha256", req.rid, req.image, req.cpu, req.mem, req.port, req.env,
    req.requester, req.ts>>

\* protocol.SignDeployRequest at time now: clear the signature, set the
\* timestamp, sign the payload.
SignDeployRequest(req, key, now) ==
  LET r == [req EXCEPT !.sig = NoSig, !.ts = now] IN
  [r EXCEPT !.sig = Sign(key, createSigningPayload(r))]

\* peerctl's signRequest: the text "id:image:cpu:memory:port:requester:
\* timestamp" is signed as it is; the environment is not part of it.
signRequest(req, key) ==
  [req EXCEPT !.sig = Sign(key, <<"text", req.rid, req.image, req.cpu, req.mem,
                                   req.port, req.requester, req.ts>>)]

\* protocol.VerifyDeployRequest with the verifier's clock at now: the timestamp
\* check, then the payload is rebuilt and, with the key, dropped; nil.
VerifyDeployRequest(req, pubKey, now) ==
  LET drift == Sub(now, req.ts)
      payload == createSigningPayload([req EXCEPT !.sig = NoSig])
  IN IF Less(drift, Negated(MaxDrift)) \/ After(drift, MaxDrift) THEN "timestamp"
     ELSE "ok"

\* The values a field of a deploy request takes.
FieldValues == [rid |-> {1, 2}, image |-> {"nginx", "redis"}, cpu |-> {1, 2},
                mem |-> {1, 2}, port |-> {0, 1}, env |-> {"none", "debug"},
                requester |-> PeerIds, ts |-> Times]

\* The time at which requests are signed: the middle of the modelled span.
SignTime == [min |-> MaxTimestampDrift + 1, ns |-> 0]

\* The request peer p builds before signing it.
Unsigned(p) == [rid |-> 1, image |-> "nginx", cpu |-> 1, mem |-> 1, port |-> 0,
                env |-> "none", requester |-> p, ts |-> SignTime, sig |-> NoSig]

\* Everything but the request on the wire.
nonWireVars == <<clock, heap, deployments, usedCPU, usedMemory, containers, task,
                 crashed, p2pVars, tunnelVars, client, trustFile, save, link, gatewayVars>>

\* Peer p signs a request with its key, by the protocol package's function or
\* by peerctl's own.
WireSign(p) ==
  /\ wire.pc = "idle"
  /\ \E r \in {SignDeployRequest(Unsigned(p), p, SignTime), signRequest(Unsigned(p), p)} :
       wire' = [NoWire EXCEPT !.pc = "signed", !.req = r, !.signed = r, !.key = p]
  /\ UNCHANGED nonWireVars

\* Somebody on the way changes one field of the request and leaves the
\* signature as it is.
WireTamper ==
  /\ wire.pc = "signed"
  /\ \E f \in DOMAIN FieldValues : \E v \in FieldValues[f] :
       /\ v # wire.req[f]
       /\ wire' = [wire EXCEPT !.pc = "sent", !.req = [@ EXCEPT ![f] = v]]
  /\ UNCHANGED nonWireVars

\* Somebody else replaces the signature by one made with a key of their own.
WireForge(k) ==
  /\ wire.pc = "signed"
  /\ k # wire.key
  /\ wire' = [wire EXCEPT !.pc = "sent",
                          !.req.sig = Sign(k, wire.req.sig.payload)]
  /\ UNCHANGED nonWireVars

\* The request arrives as it was signed.
WireDeliver ==
  /\ wire.pc = "signed"
  /\ wire' = [wire EXCEPT !.pc = "sent"]
  /\ UNCHANGED nonWireVars

\* The verifier, its clock at now, checks the request against the public key
\* of peer p, and its timestamp by ValidateTimestamp.
WireVerify(p, now) ==
  /\ wire.pc = "sent"
  /\ wire' = [wire EXCEPT !.pc = "verified", !.pub = p, !.now = now,
                          !.verdict = VerifyDeployRequest(wire.req, p, now),
                          !.valid = ValidateTimestamp(wire.req.ts, now)]
  /\ UNCHANGED nonWireVars

\* The next request.
WireNext ==
  /\ wire.pc = "verified"
  /\ wire' = NoWire
  /\ UNCHANGED nonWireVars

NextWire ==
  \/ WireTamper
  \/ WireDeliver
  \/ WireNext
  \/ \E p \in PeerIds : WireSign(p) \/ WireForge(p)
  \/ \E p \in PeerIds, now \in Times : WireVerify(p, now)

\* Deploy requests that are signed, carried and verified.
SpecWire == Init /\ [][NextWire]_vars

\* ------------------------------------------------------ properties, C21-C30
\* A goroutine's StopAll call returns in this step.
StopAllReturns(t) ==
  /\ task[t].op = "stopAll" /\ task[t].pc # "done"
  /\ task'[t].op = "stopAll" /\ task'[t].pc = "done"

\* The daemon's shutdown: callers begin no Schedule call once StopAll has been
\* called.
ScheduleBeforeStopAll(t) ==
  /\ \A u \in Tasks : task[u].op # "stopAll"
  /\ ScheduleCall(t)

NextShutdown ==
  \/ Tick
  \/ \E t \in Tasks :
       \/ ScheduleBeforeStopAll(t)
       \/ StopCall(t)
       \/ StopAllCall(t)
       \/ SchedulerStep(t)

SpecShutdown == Init /\ [][NextShutdown]_vars

\* C21: when StopAll returns after stopping at least one deployment, no CPU
\* and no memory is reserved and the deployment map is empty.
C21_StopAllReleasesEverything ==
  [][\A t \in Tasks :
       StopAllReturns(t)
       => usedCPU' = 0 /\ usedMemory' = 0 /\ \A i \in Ids : deployments'[i] = 0]_vars

\* The container with handle c exits by itself (its process dies); nothing in
\* the daemon is told.
ContainerDies(c) ==
  /\ c \in containers
  /\ containers' = containers \ {c}
  /\ UNCHANGED <<clock, heap, deployments, usedCPU, usedMemory, task, crashed>>
  /\ UNCHANGED <<p2pVars, tunnelVars, outsideVars>>

\* The steps of a Schedule call.
ScheduleStep(t) ==
  \/ ScheduleInstall(t)
  \/ ScheduleToPulling(t)
  \/ SchedulePull(t)
  \/ ScheduleRun(t)
  \/ ScheduleStore(t)
  \/ Return(t)

\* The daemon left to itself: deployments are scheduled and containers die,
\* and nobody calls Stop or StopAll.  These are all the goroutines of the
\* daemon that touch the scheduler; none polls the runtime.
NextUnattended ==
  \/ Tick
  \/ \E c \in Cids : ContainerDies(c)
  \/ \E t \in Tasks :
       \/ ScheduleCall(t)
       \/ ScheduleStep(t)

\* Every call that has begun goes on to its end.
SpecUnattended ==
  /\ Init
  /\ [][NextUnattended]_vars
  /\ WF_vars(\E t \in Tasks : ScheduleStep(t))

\* The deployment with id i is Running and its container is dead.
RunningDead(i) ==
  /\ deployments[i] # 0
  /\ Dep(i).Status = StatusRunning
  /\ Dep(i).ContainerID # 0
  /\ Dep(i).ContainerID \notin containers

\* C22: a Running deployment whose container has died is eventually moved to
\* Terminated, without a Stop request.
C22_DeadContainerTerminated ==
  \A i \in Ids :
    RunningDead(i) ~> (\E r \in Refs : heap[r].ID = i /\ heap[r].Status = StatusTerminated)

\* C23: once every stop (and every other call) has completed, each route the
\* provider keeps registered at the gateway belongs to a deployment that is
\* still in the map; the route of a stopped deployment has been revoked.
C23_StoppedRouteRevoked ==
  (\A t \in Tasks : task[t].pc = "idle")
  => \A i \in Ids : routes[i] # 0 => deployments[i] # 0

\* C24: in every gateway state, for every open tunnel and deployment id, a
\* register frame followed by an unregister frame leaves the gateway's route
\* map and the tunnel's route table as they were before the register.
C24_RegisterUnregisterRestores ==
  \A k \in Tunnels, d \in Ids :
    tc[k].state = "open"
    => /\ UnregisterRoute(RegisterRoute(tmRoutes, k, d), d) = tmRoutes
       /\ UnregisterTable(RegisterTable(tc[k].Routes, d), d) = tc[k].Routes

Rejections == {"capacity-slots", "capacity-cpu", "capacity-memory", "not-found"}

\* Goroutine t's Schedule or Stop call is rejected in this step.
Rejected(t) ==
  /\ task[t].pc # "done"
  /\ task'[t].pc = "done"
  /\ task'[t].res \in Rejections

\* C26: a Schedule call rejected for slots, CPU or memory and a Stop call for
\* an id that is not in the map leave the deployment map, every deployment's
\* record, used-cpu and used-memory as they were.
C26_RejectionChangesNothing ==
  [][\A t \in Tasks :
       Rejected(t)
       => /\ deployments' = deployments
          /\ usedCPU' = usedCPU
          /\ usedMemory' = usedMemory
          /\ \A i \in MapIds : heap'[deployments[i]] = heap[deployments[i]]]_vars

\* With a deployment in the map, one goroutine's Schedule call has been
\* rejected for capacity and another's Stop call with not-found.
C26_Witness ==
  /\ MapIds # {}
  /\ \E t, u \in Tasks :
       /\ task[t].pc = "done" /\ task[t].op = "schedule"
       /\ task[t].res \in Rejections \ {"not-found"}
       /\ task[u].pc = "done" /\ task[u].op = "stop" /\ task[u].res = "not-found"

\* C27: if the peerctl process dies during Add or Remove, the trust file holds
\* the complete list from before the command or the complete list after it.
C27_TrustFileReplacedAtomically ==
  save.pc = "crashed" => ~save.torn /\ trustFile \in {save.before, save.after}

\* The request that was verified is the one that was signed, field by field.
Untouched == wire.req = wire.signed

\* C28: verifying a request just signed with the signer's key succeeds, and
\* verification fails for a request that differs from the signed one in a
\* field other than the signature, or whose signature another key made.
C28_VerifyAcceptsOnlySigned ==
  wire.pc = "verified"
  => /\ (Untouched /\ wire.pub = wire.key /\ wire.now = wire.signed.ts)
        => wire.verdict = "ok"
     /\ (~Untouched \/ wire.pub # wire.key) => wire.verdict # "ok"

\* The verifier's clock minus the request's timestamp, and that duration
\* within the allowed drift, the limits included.
Drift == Sub(wire.now, wire.req.ts)
WithinDrift == ~Less(MaxDrift, Drift) /\ ~Less(Drift, Negated(MaxDrift))

\* C29: both timestamp checks accept a request if and only if the verifier's
\* clock and the timestamp differ by at most 5 minutes, to the nanosecond and
\* in both directions.
C29_TimestampWithinFiveMinutes ==
  wire.pc = "verified"
  => /\ wire.verdict # "timestamp" <=> WithinDrift
     /\ wire.valid = "ok" <=> WithinDrift

\* A request whose timestamp is exactly 5 minutes old has been checked and
\* accepted.
C29_Witness ==
  /\ wire.pc = "verified"
  /\ Drift = MaxDrift
  /\ wire.verdict = "ok"
  /\ wire.valid = "ok"

\* C30: the slot of a public request is in the pending map when its request
\* frame is written, a failed write removes it, and the response to the frame
\* of a request that has not timed out finds a slot under its request id.
C30_ResponseFindsSlot ==
  [][\A q \in Publics :
       LET k == public[q].tun
           rid == public[q].rid
       IN /\ (public[q].frame = "none" /\ public'[q].frame = "sent")
             => tc[k].pending[rid] # 0
          /\ (public[q].pc = "send" /\ public'[q].res = "502")
             => tc'[k].pending[rid] = 0
          /\ (public[q].pc = "waiting" /\ public[q].frame = "sent"
              /\ public'[q].frame = "answered")
             => tc[k].pending[rid] # 0]_vars

\* ------------------------------------------------- the tunnel connection
\* The TunnelConn the gateway makes for the provider's connection, and the
\* provider's peer id.
Conn == 1
Provider == "alice"

\* What the steps on the connection leave alone.
linkRest == <<heap, deployments, usedCPU, usedMemory, containers, task, crashed,
              p2pVars, connected, client, trustFile, save, wire>>

\* The goroutines that write to the connection: on the provider's side the
\* caller of RegisterDeployment and the handleRequest goroutines, on the
\* gateway's side the read loop and the public requests.
Caller == [who |-> "caller", q |-> 0]
Handler(q) == [who |-> "handler", q |-> q]
Reader == [who |-> "reader", q |-> 0]
Proxy(q) == [who |-> "proxy", q |-> q]
ClientSenders == {Caller} \cup {Handler(q) : q \in Publics}
GatewaySenders == {Reader} \cup {Proxy(q) : q \in Publics}

\* The position of goroutine g in lk and in pub, and the frame it writes.
SenderPc(lk, pub, g) ==
  CASE g.who = "caller" -> lk.caller.pc
    [] g.who = "handler" -> lk.handler[g.q].pc
    [] g.who = "reader" -> lk.greader.pc
    [] g.who = "proxy" -> pub[g.q].pc

SenderFrame(g) ==
  CASE g.who = "caller" -> [NoFrame EXCEPT !.type = "register", !.d = link.caller.d]
    [] g.who = "handler" -> [type |-> "response", d |-> link.handler[g.q].d,
                             rid |-> link.handler[g.q].rid, q |-> g.q]
    [] g.who = "reader" -> link.greader.msg
    [] g.who = "proxy" -> [type |-> "request", d |-> link.want[g.q],
                           rid |-> public[g.q].rid, q |-> g.q]

\* Client.RegisterDeployment, lines 111-124: the connected check under the
\* lock, and the register frame is built.  A deployment is registered once.
RegisterCall(d, port) ==
  /\ link.caller.pc = "idle"
  /\ link.cmu = Nobody
  /\ connected
  /\ d \notin link.called
  /\ link' = [link EXCEPT !.caller = [pc |-> "send", d |-> d, port |-> port],
                          !.called = @ \cup {d}]
  /\ UNCHANGED <<clock, routes, gatewayVars, linkRest>>

\* Client.send, lines 180-190: take Client.mu and encode the frame.
ClientSendLock(g) ==
  /\ SenderPc(link, public, g) = "send"
  /\ link.cmu = Nobody
  /\ link' = IF g = Caller
             THEN [link EXCEPT !.cmu = g, !.caller.pc = "flush"]
             ELSE [link EXCEPT !.cmu = g, !.handler[g.q].pc = "flush"]
  /\ UNCHANGED <<clock, routes, gatewayVars, linkRest>>

\* Client.send, lines 192-195: Write and Flush return once the connection has
\* taken the frame, which it does when its buffer has room; the deferred
\* Unlock follows.  A handleRequest goroutine ends after its response.
ClientFlush(g) ==
  /\ SenderPc(link, public, g) = "flush"
  /\ Len(link.up) < MaxBuffer
  /\ link' = IF g = Caller
             THEN [link EXCEPT !.up = Append(@, SenderFrame(g)), !.cmu = Nobody,
                               !.caller.pc = "install"]
             ELSE [link EXCEPT !.up = Append(@, SenderFrame(g)), !.cmu = Nobody,
                               !.handler[g.q] = NoHandler]
  /\ UNCHANGED <<clock, routes, gatewayVars, linkRest>>

\* Client.RegisterDeployment, lines 130-132: the route goes into the table.
RegisterInstall ==
  /\ link.caller.pc = "install"
  /\ link.cmu = Nobody
  /\ routes' = RegisterDeployment(link.caller.d, link.caller.port)
  /\ link' = [link EXCEPT !.caller = NoLink.caller]
  /\ UNCHANGED <<clock, gatewayVars, linkRest>>

\* Client.handleMessages, lines 205-207: the loop takes Client.mu to read the
\* reader field.
ClientReaderLock ==
  /\ link.reader = "lock"
  /\ link.cmu = Nobody
  /\ link' = [link EXCEPT !.reader = "read"]
  /\ UNCHANGED <<clock, routes, gatewayVars, linkRest>>

\* Client.handleMessages, lines 214-238: a frame is read; a "registered" frame
\* is logged, a "request" frame gets a handleRequest goroutine.
ClientReaderRead ==
  /\ link.reader = "read"
  /\ link.down # <<>>
  /\ LET f == Head(link.down) IN
     link' = [link EXCEPT
                !.down = Tail(@), !.reader = "lock",
                !.handler = IF f.type = "request"
                            THEN [@ EXCEPT ![f.q] = [pc |-> "lookup", d |-> f.d,
                                                     rid |-> f.rid, code |-> 0]]
                            ELSE @]
  /\ UNCHANGED <<clock, routes, gatewayVars, linkRest>>

\* Client.handleRequest, lines 243-250: look the deployment's port up under
\* the lock; without one the answer is 404 "Deployment not found".
HandlerLookup(q) ==
  /\ link.handler[q].pc = "lookup"
  /\ link.cmu = Nobody
  /\ link' = IF routes[link.handler[q].d] = 0
             THEN [link EXCEPT !.handler[q].pc = "send", !.handler[q].code = 404]
             ELSE [link EXCEPT !.handler[q].pc = "forward"]
  /\ UNCHANGED <<clock, routes, gatewayVars, linkRest>>

\* Client.handleRequest, lines 252-287: the container answers, or it cannot be
\* reached.
HandlerForward(q) ==
  /\ link.handler[q].pc = "forward"
  /\ \E code \in {200, 502} :
       link' = [link EXCEPT !.handler[q].pc = "send", !.handler[q].code = code]
  /\ UNCHANGED <<clock, routes, gatewayVars, linkRest>>

\* handleTunnelConn, lines 270-296 and 311: the gateway's loop reads a frame.
\* A register frame is indexed and a "registered" frame is to be sent back; a
\* response frame is to be handed to its request.
GatewayRead ==
  /\ tc[Conn].state = "open"
  /\ link.greader.pc = "read"
  /\ link.up # <<>>
  /\ LET f == Head(link.up) IN
     IF f.type = "register"
     THEN /\ tc' = [tc EXCEPT ![Conn].PeerID = Provider,
                              ![Conn].Routes = RegisterTable(@, f.d)]
          /\ tmTunnels' = [tmTunnels EXCEPT ![Provider] = Conn]
          /\ tmRoutes' = RegisterRoute(tmRoutes, Conn, f.d)
          /\ link' = [link EXCEPT !.up = Tail(@),
                        !.greader = [pc |-> "send",
                                     msg |-> [NoFrame EXCEPT !.type = "registered",
                                                             !.d = f.d]]]
     ELSE /\ link' = [link EXCEPT !.up = Tail(@),
                                  !.greader = [pc |-> "response", msg |-> f]]
          /\ UNCHANGED <<tc, tmTunnels, tmRoutes>>
  /\ UNCHANGED <<clock, routes, public, linkRest>>

\* TunnelConn.Send, lines 336-341: take TunnelConn.mu and encode the frame.
GatewaySendLock(g) ==
  /\ SenderPc(link, public, g) = "send"
  /\ link.tcmu = Nobody
  /\ tc[Conn].state = "open"
  /\ link' = IF g = Reader
             THEN [link EXCEPT !.tcmu = g, !.greader.pc = "flush"]
             ELSE [link EXCEPT !.tcmu = g]
  /\ public' = IF g = Reader THEN public ELSE [public EXCEPT ![g.q].pc = "flush"]
  /\ UNCHANGED <<clock, routes, tmTunnels, tmRoutes, tc, linkRest>>

\* TunnelConn.Send, lines 343-346: Write and Flush return once the connection
\* has taken the frame; the deferred Unlock follows.  The read loop goes back
\* to reading, a public request to waiting for its response.
GatewayFlush(g) ==
  /\ SenderPc(link, public, g) = "flush"
  /\ Len(link.down) < MaxBuffer
  /\ link' = IF g = Reader
             THEN [link EXCEPT !.down = Append(@, SenderFrame(g)), !.tcmu = Nobody,
                               !.greader = NoLink.greader]
             ELSE [link EXCEPT !.down = Append(@, SenderFrame(g)), !.tcmu = Nobody]
  /\ public' = IF g = Reader THEN public
               ELSE [public EXCEPT ![g.q].pc = "waiting", ![g.q].frame = "sent"]
  /\ UNCHANGED <<clock, routes, tmTunnels, tmRoutes, tc, linkRest>>

\* handleTunnelConn, case "response", lines 311-317: under TunnelConn.mu the
\* response goes into the channel in the slot of its request id, if there is
\* one; a send on a full channel never returns and the lock stays taken.
GatewayResponse ==
  LET f == link.greader.msg
      slot == tc[Conn].pending[f.rid]
  IN /\ link.greader.pc = "response"
     /\ link.tcmu = Nobody
     /\ IF slot = 0
        THEN /\ public' = [public EXCEPT ![f.q].frame = "answered"]
             /\ link' = [link EXCEPT !.greader = NoLink.greader]
             /\ UNCHANGED tc
        ELSE IF public[slot].got # 0
        THEN /\ public' = [public EXCEPT ![f.q].frame = "answered"]
             /\ link' = [link EXCEPT !.tcmu = Reader, !.greader.pc = "blocked"]
             /\ tc' = [tc EXCEPT ![Conn].state = "blocked"]
        ELSE /\ public' = [public EXCEPT ![f.q].frame = "answered", ![slot].got = f.q]
             /\ link' = [link EXCEPT !.greader = NoLink.greader]
             /\ tc' = [tc EXCEPT ![Conn].pending[f.rid] = 0]
     /\ UNCHANGED <<clock, routes, tmTunnels, tmRoutes, linkRest>>

\* ServeHTTP for a request that asks for deployment d.
ProxyLookup(q, d) ==
  /\ NextPublic(q)
  /\ public' = [public EXCEPT ![q] = ServeHTTP(d)]
  /\ link' = [link EXCEPT !.want[q] = IF tmRoutes[d] = 0 THEN 0 ELSE d]
  /\ UNCHANGED <<clock, routes, tmTunnels, tmRoutes, tc, linkRest>>

\* TunnelConn.Request, lines 350-354 and 366-370: the sections that install
\* and, at the timeout, delete the slot need TunnelConn.mu.
ProxyInstall(q) == link.tcmu = Nobody /\ PublicInstall(q)
ProxyTimeout(q) == link.tcmu = Nobody /\ PublicTimeout(q)

NextLink ==
  \/ Tick
  \/ TunnelConnect(Conn)
  \/ \E d \in Ids, port \in Ports : RegisterCall(d, port)
  \/ \E g \in ClientSenders : ClientSendLock(g) \/ ClientFlush(g)
  \/ RegisterInstall
  \/ ClientReaderLock
  \/ ClientReaderRead
  \/ GatewayRead
  \/ \E g \in GatewaySenders : GatewaySendLock(g) \/ GatewayFlush(g)
  \/ GatewayResponse
  \/ \E q \in Publics :
       \/ HandlerLookup(q)
       \/ HandlerForward(q)
       \/ \E d \in Ids : ProxyLookup(q, d)
       \/ ProxyInstall(q)
       \/ PublicReceive(q)
       \/ ProxyTimeout(q)

\* One provider's tunnel connection, frame by frame: the provider registers
\* deployments, the gateway proxies public requests to it.
SpecLink == Init /\ [][NextLink]_vars

\* ------------------------------------------------------ properties, C31-C40
\* Goroutine g is inside a Write and Flush on the connection.
Writing(g) == SenderPc(link, public, g) = "flush"

\* C31: no goroutine writes to the tunnel connection while it holds the
\* client's lock or the per-tunnel lock.
C31_NoWriteUnderLock ==
  /\ \A g \in ClientSenders : Writing(g) => link.cmu # g
  /\ \A g \in GatewaySenders : Writing(g) => link.tcmu # g

\* Goroutine t is in a Schedule call that has been given its deployment id.
HoldsId(t) ==
  /\ task[t].op \in {"schedule", "deploy"}
  /\ task[t].pc \in {"install", "toPulling", "pull", "run", "store"}

\* C32: two Schedule calls in progress never hold the same deployment id, and
\* the step that registers a deployment overwrites no entry of the map.
C32_IdsCollisionFree ==
  [][/\ \A s, t \in Tasks : (s # t /\ HoldsId(s) /\ HoldsId(t)) => task[s].id # task[t].id
     /\ \A t \in Tasks :
          (task[t].pc = "install" /\ task'[t].pc = "toPulling")
          => deployments[task[t].id] = 0]_vars

\* Stop, lines 160-164, when docker cannot stop the container (the docker
\* daemon does not answer, or the context ends the command): runtime.Stop
\* drops the errors of "docker stop" and "docker rm" and returns nil, and the
\* container keeps running.
StopRuntimeFails(t) ==
  LET tk == task[t] IN
  /\ tk.pc = "stopRuntime"
  /\ heap[tk.obj].ContainerID \in containers
  /\ task' = [task EXCEPT ![t].pc = "stopRelease", ![t].unstopped = TRUE]
  /\ UNCHANGED <<clock, heap, deployments, usedCPU, usedMemory, containers, crashed>>
  /\ UNCHANGED <<p2pVars, tunnelVars, outsideVars>>

\* The scheduler under Schedule and Stop calls with a runtime that may fail
\* to stop a container.
NextStopFails ==
  \/ Tick
  \/ \E t \in Tasks :
       \/ ScheduleCall(t)
       \/ StopCall(t)
       \/ ScheduleStep(t)
       \/ StopRuntime(t)
       \/ StopRuntimeFails(t)
       \/ StopRelease(t)

SpecStopFails == Init /\ [][NextStopFails]_vars

\* C33: when Stop ends after the runtime failed to stop the container, the
\* deployment is out of the map and its record (seen by a goroutine that
\* still holds it, such as a second Stop call) is Failed.
C33_FailedStopMarksFailed ==
  [][\A t \in Tasks :
       (task[t].unstopped /\ task[t].pc = "stopRelease" /\ task'[t].pc = "done"
        /\ heap'[task[t].obj] # NoObj)
       => /\ deployments'[task[t].id] = 0
          /\ heap'[task[t].obj].Status = StatusFailed]_vars

\* C34: once every Schedule, Stop and StopAll call has returned, each running
\* container is the container of a deployment in the map; none runs on for a
\* deployment that was removed and whose resources were released.
C34_NoOrphanContainer ==
  (\A t \in Tasks : task[t].pc = "idle")
  => \A c \in containers : \E i \in MapIds : Dep(i).ContainerID = c

\* C35: the teardown of a tunnel connection removes no peer-index entry and no
\* route that points to another connection.
C35_TeardownSparesNewConnection ==
  [][\A k \in Tunnels :
       (tc[k].state = "open" /\ tc'[k].state = "closed")
       => /\ \A p \in PeerIds : tmTunnels[p] \notin {0, k} => tmTunnels'[p] = tmTunnels[p]
          /\ \A d \in Ids : tmRoutes[d] \notin {0, k} => tmRoutes'[d] = tmRoutes[d]]_vars

\* The gateway's read loop cannot go on: it is writing a "registered" frame to
\* a full buffer, or it waits for TunnelConn.mu, which a public request holds
\* while writing its request frame to a full buffer.
GatewayReaderBlocked ==
  /\ Len(link.down) = MaxBuffer
  /\ \/ link.greader.pc = "flush"
     \/ /\ link.greader.pc \in {"send", "response"}
        /\ \E q \in Publics : link.tcmu = Proxy(q) /\ public[q].pc = "flush"

\* The provider's read loop cannot go on: it waits for Client.mu, which a
\* handleRequest goroutine holds while writing its response to a full buffer.
ProviderReaderBlocked ==
  /\ Len(link.up) = MaxBuffer
  /\ link.reader = "lock"
  /\ \E q \in Publics : link.cmu = Handler(q) /\ link.handler[q].pc = "flush"

\* C36: the two read loops are never blocked at the same time, each behind a
\* write that waits for the other side to read.
C36_ReadLoopsNeverDeadlock == ~(GatewayReaderBlocked /\ ProviderReaderBlocked)

\* C37: no handleRequest goroutine answers 404 "Deployment not found" for a
\* deployment that the gateway routes to this provider's connection (no
\* deployment is unregistered here).
C37_RouteKnownBeforeRequest ==
  \A q \in Publics :
    link.handler[q].code = 404 => tmRoutes[link.handler[q].d] # Conn

\* A trust store whose file system may fail: Add and Remove with every outcome
\* of the write, the gate's decisions, and a restart that loads the file.
NextStore ==
  \/ DaemonStart
  \/ \E p \in PeerIds, out \in WriteOutcomes : Add(p, out) \/ Remove(p, out)
  \/ \E k \in GateKinds, p \in PeerIds : GateDecide(k, p)

SpecStore == Init /\ [][NextStore]_vars

\* C38: a call of Add or Remove that returns a write error leaves the set in
\* memory as it was before the call, and after every call the set in memory
\* is the list in the file, unless a failed write has damaged the file.
C38_FailedSaveChangesNothing ==
  [][/\ (save'.pc = "failed" /\ <<peers, save>>' # <<peers, save>>) => peers' = peers
     /\ ~save'.torn => peers' = trustFile']_vars

\* The amounts a deploy request may carry: cpu_millicores and memory_bytes are
\* signed 64-bit fields that nothing checks before Schedule.  Here: a sound
\* request, one with no CPU, one with negative CPU, one with no memory, and
\* one that asks for more CPU than the provider has.
Amounts == {[cpu |-> 1, mem |-> 1], [cpu |-> 0, mem |-> 1], [cpu |-> 0 - 1, mem |-> 1],
            [cpu |-> 1, mem |-> 0], [cpu |-> maxCPU + 1, mem |-> 1]}

\* A goroutine calls Schedule with any of these amounts.
ScheduleAmount(t) ==
  /\ Free(t)
  /\ \E req \in Amounts : ScheduleWith(t, req)
  /\ UNCHANGED <<clock, usedCPU, usedMemory, containers, crashed>>
  /\ UNCHANGED <<p2pVars, tunnelVars, outsideVars>>

\* The scheduler under concurrent Schedule calls with arbitrary amounts.
NextAmounts ==
  \/ Tick
  \/ \E t \in Tasks :
       \/ ScheduleAmount(t)
       \/ ScheduleStep(t)

SpecAmounts == Init /\ [][NextAmounts]_vars

\* C39: used-cpu and used-memory are never negative, every deployment in the
\* map has a positive CPU and memory amount, and the step that registers a
\* deployment lowers neither total.
C39_NonPositiveAmountsRejected ==
  [][/\ usedCPU' >= 0 /\ usedMemory' >= 0
     /\ \A i \in Ids : deployments'[i] # 0
          => heap'[deployments'[i]].CPULimit > 0 /\ heap'[deployments'[i]].MemoryLimit > 0
     /\ \A t \in Tasks :
          (task[t].pc = "install" /\ task'[t].pc = "toPulling")
          => usedCPU' >= usedCPU /\ usedMemory' >= usedMemory]_vars

\* The deploy handler of goroutine t has pulled the request's image (its
\* runtime.Pull, line 81, has returned) and has not entered Schedule yet.
Pulled(t) == task[t].op = "deploy" /\ task[t].pc = "schedule"

\* C40: a deploy request that Schedule rejects for slots, CPU or memory has
\* caused no image pull.
C40_NoPullBeforeAdmission ==
  [][\A t \in Tasks :
       (task'[t].op = "deploy" /\ Rejected(t)) => ~Pulled(t)]_vars

====
